---- MODULE Spec2Model ----
(***************************************************************************)
(* Completion relay, balance ledger and settlement reconciler of the       *)
(* petool backend (backend/routers/proxy.py, payment.py, auth.py).         *)
(*                                                                         *)
(* One action is one run of handler code between two suspension points     *)
(* (await / yield).  Every MongoDB call is one atomic step on the stored   *)
(* document; the Python that follows it up to the next await belongs to    *)
(* the same step.  Texts are sequences of characters.  The created_at and  *)
(* updated_at stamps of the documents are left out: no code path reads     *)
(* them back except the usage listings.  The endpoints that only read      *)
(* (login, /account/*, the order query) are steps that change nothing.     *)
(* PLANS is a table the program sets at import: it is state here because   *)
(* the database outlives the process and a later release may set another.  *)
(***************************************************************************)
EXTENDS Integers, Sequences, FiniteSets, TLC

VARIABLES
    users,          \* db.users: account id -> account document
    usage_records,  \* db.usage_records: the append-only log (a sequence)
    orders,         \* db.orders: out_trade_no -> order document
    req,            \* one chat_completions invocation per request id
    tasks,          \* the tasks made by asyncio.create_task(_deduct_tokens(..))
    ful,            \* one _fulfill_order invocation per delivery id
    grants,         \* history: every users.update_one issued by _fulfill_order
    now,            \* datetime.utcnow(), in days
    tokenizer_ok,   \* whether tiktoken.get_encoding("cl100k_base") succeeds
    env,            \* the inputs of this run: what callers and upstream may send
    initial,        \* history: every account as it was when first seen
    plans           \* the PLANS table of the release that is running

vars == <<users, usage_records, orders, req, tasks, ful, grants, now,
          tokenizer_ok, env, initial, plans>>

(***************************************************************************)
(* Bounds of the model.                                                    *)
(***************************************************************************)
MaxLines == 2       \* lines one upstream stream produces at most
MaxTime == 2        \* the clock stops here
MaxOrders == 2      \* orders created at most

Users == {"u1"}
Requests == {"r1", "r2"}
Deliveries == {"d1", "d2"}

(***************************************************************************)
(* Program constants.                                                      *)
(***************************************************************************)
NEW_USER_WELCOME_TOKENS == 50000

\* TOKEN_COST_MULTIPLIER, in tenths (2.0 is 20).  The products total * m of
\* the code are floats; for every total below 3,000,000 int(total * m) is
\* (total * tenths) \div 10, which is how Cost computes it.
TOKEN_COST_MULTIPLIER ==
    LET table == {
        \* "gpt-4o": 2.0
        <<<<"g", "p", "t", "-", "4", "o">>,
          20>>,
        \* "gpt-4o-mini": 1.0
        <<<<"g", "p", "t", "-", "4", "o", "-", "m", "i", "n", "i">>,
          10>>,
        \* "glm-5": 1.0
        <<<<"g", "l", "m", "-", "5">>,
          10>>,
        \* "glm-4-plus": 1.5
        <<<<"g", "l", "m", "-", "4", "-", "p", "l", "u", "s">>,
          15>>,
        \* "doubao-pro": 1.2
        <<<<"d", "o", "u", "b", "a", "o", "-", "p", "r", "o">>,
          12>>,
        \* "doubao-lite": 0.8
        <<<<"d", "o", "u", "b", "a", "o", "-", "l", "i", "t", "e">>,
          8>>,
        \* "doubao-seed-1-6-thinking": 1.5
        <<<<"d", "o", "u", "b", "a", "o", "-", "s", "e", "e", "d", "-",
            "1", "-", "6", "-", "t", "h", "i", "n", "k", "i",
            "n", "g">>,
          15>>,
        \* "minimax-m2.5": 1.0
        <<<<"m", "i", "n", "i", "m", "a", "x", "-", "m", "2", ".", "5">>,
          10>>,
        \* "minimax-text-01": 1.0
        <<<<"m", "i", "n", "i", "m", "a", "x", "-", "t", "e", "x", "t",
            "-", "0", "1">>,
          10>>,
        \* "abab7-chat-preview": 1.5
        <<<<"a", "b", "a", "b", "7", "-", "c", "h", "a", "t", "-", "p",
            "r", "e", "v", "i", "e", "w">>,
          15>>,
        \* "abab6.5s-chat": 1.0
        <<<<"a", "b", "a", "b", "6", ".", "5", "s", "-", "c", "h", "a",
            "t">>,
          10>>,
        \* "abab5.5-chat": 0.8
        <<<<"a", "b", "a", "b", "5", ".", "5", "-", "c", "h", "a", "t">>,
          8>>}
    IN  [m \in {p[1] : p \in table} |-> (CHOOSE p \in table : p[1] = m)[2]]

DefaultMultiplier == 10

(***************************************************************************)
(* Inputs: model identifiers, message lists, upstream lines and responses. *)
(***************************************************************************)
\* a str is the sequence of its characters
doubao_lite == <<"d", "o", "u", "b", "a", "o", "-", "l", "i", "t", "e">>
GLM_4_Plus == <<" ", "G", "L", "M", "-", "4", "-", "P", "l", "u", "s", " ">>
my_model == <<"m", "y", "-", "m", "o", "d", "e", "l">>
minimax_m2_5 ==
    <<"m", "i", "n", "i", "m", "a", "x", "-", "m", "2", ".", "5">>

ModelInputs == {doubao_lite, GLM_4_Plus, my_model}

\* str.strip(): leading and trailing whitespace removed
Whitespace == {" ", "\t", "\n", "\r"}

strip(s) ==
    IF \A i \in 1..Len(s) : s[i] \in Whitespace THEN <<>>
    ELSE SubSeq(s,
            CHOOSE i \in 1..Len(s) :
                /\ s[i] \notin Whitespace
                /\ \A j \in 1..(i - 1) : s[j] \in Whitespace,
            CHOOSE i \in 1..Len(s) :
                /\ s[i] \notin Whitespace
                /\ \A j \in (i + 1)..Len(s) : s[j] \in Whitespace)

\* str.lower() on ASCII text
UpperCase ==
    <<"A", "B", "C", "D", "E", "F", "G", "H", "I", "J", "K", "L", "M",
      "N", "O", "P", "Q", "R", "S", "T", "U", "V", "W", "X", "Y", "Z">>
LowerCase ==
    <<"a", "b", "c", "d", "e", "f", "g", "h", "i", "j", "k", "l", "m",
      "n", "o", "p", "q", "r", "s", "t", "u", "v", "w", "x", "y", "z">>

LowerChar(c) ==
    IF \E n \in 1..26 : UpperCase[n] = c
    THEN LowerCase[CHOOSE n \in 1..26 : UpperCase[n] = c]
    ELSE c

lower(s) == SubSeq([i \in 1..Len(s) |-> LowerChar(s[i])], 1, Len(s))

\* str.startswith
startswith(s, prefix) ==
    Len(prefix) <= Len(s) /\ SubSeq(s, 1, Len(prefix)) = prefix

\* model.strip().lower()
StripLower(model) ==
    CHOOSE key \in {lower(stripped) : stripped \in {strip(model)}} : TRUE

\* _get_client: the provider whose client is returned
_get_client_no_lower(model) ==
    LET key == strip(model)
    IN  IF \/ startswith(key, <<"m", "i", "n", "i", "m", "a", "x">>)
           \/ startswith(key, <<"a", "b", "a", "b">>)
        THEN "minimax"
        ELSE IF \/ startswith(key, <<"d", "o", "u", "b", "a", "o">>)
                \/ startswith(key, <<"e", "p", "-">>)
        THEN "ark"
        ELSE IF startswith(key, <<"g", "l", "m">>) THEN "glm"
        ELSE IF startswith(key, <<"g", "p", "t">>) THEN "openai"
        ELSE "glm"

_get_client(model) ==
    LET key == StripLower(model)
    IN  IF \/ startswith(key, <<"m", "i", "n", "i", "m", "a", "x">>)
           \/ startswith(key, <<"a", "b", "a", "b">>)
        THEN "minimax"
        ELSE IF \/ startswith(key, <<"d", "o", "u", "b", "a", "o">>)
                \/ startswith(key, <<"e", "p", "-">>)
        THEN "ark"
        ELSE IF startswith(key, <<"g", "l", "m">>) THEN "glm"
        ELSE IF startswith(key, <<"g", "p", "t">>) THEN "openai"
        ELSE "glm"

\* the values of the request body: a JSON object (here with boolean
\* members) or any other JSON value, kept as its text
NoItems == [k \in {} |-> TRUE]
Dict(items) == [is_dict |-> TRUE, items |-> items, scalar |-> ""]
Scalar(text) == [is_dict |-> FALSE, items |-> NoItems, scalar |-> text]
Item(key, value) == [k \in {key} |-> value]

\* the members of the body other than model, messages and stream
NoKwargs == [k \in {} |-> Scalar("")]

KwargsInputs ==
    {NoKwargs,
     Item("temperature", Scalar("0.7")),
     Item("extra_body", Dict(Item("enable_search", TRUE))),
     Item("extra_body", Dict(Item("reasoning_split", FALSE))),
     Item("extra_body", Scalar("x")),
     [k \in {"temperature", "extra_body"} |->
         IF k = "temperature" THEN Scalar("0.7") ELSE Dict(NoItems)]}

\* body = await request.json(): model, messages and stream are read on
\* their own (152-154), so here only the keys stand for them
Body(kwargs) ==
    [k \in {"model", "messages", "stream"} \cup DOMAIN kwargs |->
        IF k \in DOMAIN kwargs THEN kwargs[k] ELSE Scalar(k)]

\* lines 157-165: the comprehension, then the extra_body of MiniMax-M2.5
PassthroughKwargs(model, body) ==
    LET passthrough_kwargs ==
            [k \in DOMAIN body \ {"model", "messages", "stream"} |-> body[k]]
        model_key == StripLower(model)
        has == "extra_body" \in DOMAIN passthrough_kwargs
        extra_body_payload ==
            IF has /\ passthrough_kwargs["extra_body"].is_dict
            THEN passthrough_kwargs["extra_body"].items
            ELSE NoItems
        with_split ==
            [k \in DOMAIN extra_body_payload \cup {"reasoning_split"} |->
                IF k = "reasoning_split" THEN TRUE
                ELSE extra_body_payload[k]]
    IN  IF model_key = minimax_m2_5
        THEN [k \in DOMAIN passthrough_kwargs \cup {"extra_body"} |->
                 IF k = "extra_body" THEN Dict(with_split)
                 ELSE passthrough_kwargs[k]]
        ELSE passthrough_kwargs

Max(a, b) == IF a >= b THEN a ELSE b

\* one message: content is a string, a list of blocks, or None
StrMsg(t) == [kind |-> "str", text |-> t, blocks |-> <<>>]
ListMsg(bs) == [kind |-> "list", text |-> <<>>, blocks |-> bs]
NoneMsg == [kind |-> "none", text |-> <<>>, blocks |-> <<>>]
TextBlock(t) == [is_dict |-> TRUE, type |-> "text", text |-> t]
ImageBlock == [is_dict |-> TRUE, type |-> "image_url", text |-> <<>>]

MessageInputs ==
    { <<>>,
      <<StrMsg(<<"a">>)>>,
      <<StrMsg(<<"b">>), NoneMsg>>,
      <<ListMsg(<<TextBlock(<<"a">>), ImageBlock, TextBlock(<<"b">>)>>),
        StrMsg(<<"b">>)>> }

RECURSIVE JoinNL(_)
\* "\n".join(parts)
JoinNL(parts) ==
    IF Len(parts) = 0 THEN <<>>
    ELSE IF Len(parts) = 1 THEN parts[1]
    ELSE parts[1] \o <<"\n">> \o JoinNL(Tail(parts))

RECURSIVE BlockParts(_)
BlockParts(blocks) ==
    IF Len(blocks) = 0 THEN <<>>
    ELSE LET b == Head(blocks) IN
         (IF b.is_dict /\ b.type = "text" THEN <<b.text>> ELSE <<>>)
            \o BlockParts(Tail(blocks))

RECURSIVE MessageParts(_)
MessageParts(messages) ==
    IF Len(messages) = 0 THEN <<>>
    ELSE LET m == Head(messages) IN
         (CASE m.kind = "list" -> BlockParts(m.blocks)
            [] m.kind = "str" -> <<m.text>>
            [] OTHER -> << <<>> >>)       \* content None: str("") is appended
            \o MessageParts(Tail(messages))

_extract_text_from_messages(messages) == JoinNL(MessageParts(messages))

\* len(enc.encode(text)): the byte-pair encoder merges known pairs into one
\* token; here the one known pair is "ab" (its occurrences never overlap),
\* every other character is a token of its own.
Encode(text) ==
    Len(text) - Cardinality({i \in 1..(Len(text) - 1) :
                                text[i] = "a" /\ text[i + 1] = "b"})

_count_tokens_approx(text) ==
    IF tokenizer_ok THEN Encode(text) ELSE Max(1, Len(text) \div 4)

(***************************************************************************)
(* Balance ledger: cost, balance check, MongoDB update_one.                *)
(***************************************************************************)
_get_cost_multiplier(model) ==
    IF StripLower(model) \in DOMAIN TOKEN_COST_MULTIPLIER
    THEN TOKEN_COST_MULTIPLIER[StripLower(model)]
    ELSE DefaultMultiplier

\* int(x) of a non-negative x given as tenths: truncation
IntTrunc(tenths) == tenths \div 10

\* round(x): to the nearest integer, a half to the even neighbour
RoundHalfEven(tenths) ==
    LET q == tenths \div 10
        d == tenths % 10
    IN  IF d > 5 \/ (d = 5 /\ q % 2 = 1) THEN q + 1 ELSE q

\* cost = max(1, int(total * _get_cost_multiplier(model)))
CostRounded(model, total) ==
    Max(1, RoundHalfEven(total * _get_cost_multiplier(model)))

CostNoFloor(model, total) == IntTrunc(total * _get_cost_multiplier(model))

Cost(model, total) == Max(1, IntTrunc(total * _get_cost_multiplier(model)))

\* _check_balance raises HTTPException(402)
CheckBalanceStrict(db_users, user_id, estimated_cost) ==
    \/ user_id \notin DOMAIN db_users
    \/ db_users[user_id].token_balance <= Max(1, estimated_cost)

CheckBalanceRejects(db_users, user_id, estimated_cost) ==
    \/ user_id \notin DOMAIN db_users
    \/ db_users[user_id].token_balance < Max(1, estimated_cost)

NoFields == [f \in {} |-> 0]

\* update_one on one document: $set replaces the named fields, $inc adds to
\* them, every other field is left as stored
UpdateDoc(doc, update) ==
    [f \in DOMAIN doc \cup DOMAIN update.set \cup DOMAIN update.inc |->
        IF f \in DOMAIN update.set THEN update.set[f]
        ELSE IF f \in DOMAIN update.inc
             THEN (IF f \in DOMAIN doc THEN doc[f] ELSE 0) + update.inc[f]
        ELSE doc[f]]

\* collection.update_one({"_id": id}, update): no match, no change
UpdateOne(coll, id, update) ==
    IF id \in DOMAIN coll
    THEN [coll EXCEPT ![id] = UpdateDoc(coll[id], update)]
    ELSE coll

\* the update document of _deduct_tokens
DeductUpdateOnlyBalance(cost) ==
    [inc |-> [f \in {"token_balance"} |-> -cost], set |-> NoFields]

DeductUpdateOnlyUsed(cost) ==
    [inc |-> [f \in {"token_total_used"} |-> cost], set |-> NoFields]

DeductUpdate(cost) ==
    [inc |-> [f \in {"token_balance", "token_total_used"} |->
                 IF f = "token_balance" THEN -cost ELSE cost],
     set |-> NoFields]

\* the filter of the update_one of _deduct_tokens, {"_id": ObjectId(user_id)}:
\* it matches the account whatever its balance
DeductMatchesSufficient(doc, cost) == doc.token_balance >= cost

DeductMatches(doc, cost) == TRUE

\* the document _deduct_tokens inserts; req names the request that made it
\* (history), task_type is the default of the signature, written "chat" here
UsageRecordTotalAsCost(t) ==
    LET total == t.prompt_tokens + t.completion_tokens IN
    [req |-> t.req, user_id |-> t.user_id, model |-> t.model,
     task_type |-> "chat",
     prompt_tokens |-> t.prompt_tokens,
     completion_tokens |-> t.completion_tokens,
     total_tokens |-> total,
     cost_tokens |-> total]

UsageRecord(t) ==
    LET total == t.prompt_tokens + t.completion_tokens IN
    [req |-> t.req, user_id |-> t.user_id, model |-> t.model,
     task_type |-> "chat",
     prompt_tokens |-> t.prompt_tokens,
     completion_tokens |-> t.completion_tokens,
     total_tokens |-> total,
     cost_tokens |-> Cost(t.model, total)]

(***************************************************************************)
(* Upstream lines (what upstream.iter_lines() yields) and their metering.  *)
(* A line is its "data:" prefix, the text after the prefix, and, when that *)
(* text is a JSON object, the value of its "choices" key.                  *)
(***************************************************************************)
Line(prefix, rest, choices_kind, choices) ==
    [data_prefix |-> prefix, rest |-> rest,
     choices_kind |-> choices_kind, choices |-> choices]

\* a choice {"delta": {"content": text}}, one with a delta but no textual
\* content (a role or reasoning delta), one with no delta, one that is no dict
DeltaChoice(text) ==
    [is_dict |-> TRUE, delta_is_dict |-> TRUE, content_is_str |-> TRUE,
     content |-> text]
RoleChoice ==
    [is_dict |-> TRUE, delta_is_dict |-> TRUE, content_is_str |-> FALSE,
     content |-> <<>>]
NoDeltaChoice ==
    [is_dict |-> TRUE, delta_is_dict |-> FALSE, content_is_str |-> FALSE,
     content |-> <<>>]

BlankLine == Line(FALSE, "", "absent", <<>>)                \* ""
EmptyDataLine == Line(TRUE, " ", "absent", <<>>)            \* "data: "
DoneLine == Line(TRUE, " [DONE]", "absent", <<>>)           \* "data: [DONE]"
BadJsonLine == Line(TRUE, " {bad", "absent", <<>>)          \* "data: {bad"
ScalarLine == Line(TRUE, " 7", "absent", <<>>)              \* "data: 7"
NullChoicesLine == Line(TRUE, " {obj}", "null", <<>>)       \* {"choices": null}
NoChoicesLine == Line(TRUE, " {obj}", "absent", <<>>)       \* {"id": ..}
ChunkLine(choices) == Line(TRUE, " {obj}", "list", choices) \* {"choices": [..]}

ContentLine(text) == ChunkLine(<<DeltaChoice(text)>>)

AllLines ==
    { BlankLine, EmptyDataLine, DoneLine, BadJsonLine, ScalarLine,
      NullChoicesLine, NoChoicesLine,
      ContentLine(<<"a">>), ContentLine(<<"b">>),
      ChunkLine(<<RoleChoice, DeltaChoice(<<"b">>)>>),
      ChunkLine(<<NoDeltaChoice>>) }

\* line[5:].strip()
Strip(rest) ==
    CASE rest = " " -> ""
      [] rest = " [DONE]" -> "[DONE]"
      [] rest = " {bad" -> "{bad"
      [] rest = " 7" -> "7"
      [] rest = " {obj}" -> "{obj}"
      [] OTHER -> rest

\* json.loads(data_raw): "invalid" raises, "scalar" is a value that is no dict
JsonLoads(data_raw) ==
    CASE data_raw = "{obj}" -> "object"
      [] data_raw = "7" -> "scalar"
      [] OTHER -> "invalid"

RECURSIVE ChoicesText(_)
\* the for loop over payload["choices"]: the str contents of dict deltas
ChoicesText(choices) ==
    IF Len(choices) = 0 THEN <<>>
    ELSE LET c == Head(choices) IN
         (IF c.is_dict /\ c.delta_is_dict /\ c.content_is_str
          THEN c.content ELSE <<>>) \o ChoicesText(Tail(choices))

\* the metering of one forwarded line (after the yield): the completion text
\* it leaves, or raised = TRUE when the code raises (payload.get on a value
\* that is no dict, iteration over choices = null)
MeterLineLast(completion_text, line) ==
    IF line.data_prefix /\ line.choices_kind = "list"
    THEN [raised |-> FALSE, text |-> ChoicesText(line.choices)]
    ELSE [raised |-> FALSE, text |-> completion_text]

MeterLineBadJsonRaises(completion_text, line) ==
    LET keep == [raised |-> FALSE, text |-> completion_text]
        data_raw == Strip(line.rest)
    IN  IF ~line.data_prefix THEN keep
        ELSE IF data_raw = "" \/ data_raw = "[DONE]" THEN keep
        ELSE IF JsonLoads(data_raw) \in {"invalid", "scalar"}
             THEN [raised |-> TRUE, text |-> completion_text]
        ELSE IF line.choices_kind = "absent" THEN keep
        ELSE IF line.choices_kind = "null"
             THEN [raised |-> TRUE, text |-> completion_text]
        ELSE [raised |-> FALSE,
              text |-> completion_text \o ChoicesText(line.choices)]

MeterLine(completion_text, line) ==
    LET keep == [raised |-> FALSE, text |-> completion_text]
        data_raw == Strip(line.rest)
    IN  IF ~line.data_prefix THEN keep
        ELSE IF data_raw = "" \/ data_raw = "[DONE]" THEN keep
        ELSE IF JsonLoads(data_raw) = "invalid" THEN keep
        ELSE IF JsonLoads(data_raw) = "scalar"
             THEN [raised |-> TRUE, text |-> completion_text]
        ELSE IF line.choices_kind = "absent" THEN keep
        ELSE IF line.choices_kind = "null"
             THEN [raised |-> TRUE, text |-> completion_text]
        ELSE [raised |-> FALSE,
              text |-> completion_text \o ChoicesText(line.choices)]

\* what the client is sent: f"{line}\n", and the synthetic error event
\* f"data: {error_payload}\n\n" with type "upstream_error"
Forwarded(line) == [line |-> line, term |-> "\n", synthetic |-> FALSE]

ErrorEvent ==
    [line |-> Line(TRUE, " {obj}", "absent", <<>>), term |-> "\n\n",
     synthetic |-> TRUE]

\* the non-streaming responses: usage present or not, choices present or not,
\* message.content a string or None
Response(has_usage, completion_tokens, has_choices, content_is_str, content) ==
    [has_usage |-> has_usage, completion_tokens |-> completion_tokens,
     has_choices |-> has_choices, content_is_str |-> content_is_str,
     content |-> content]

UnaryResponses ==
    { Response(TRUE, 2, TRUE, TRUE, <<"a">>),
      Response(FALSE, 0, TRUE, TRUE, <<"b", "a", "b">>),
      Response(FALSE, 0, TRUE, FALSE, <<>>),
      Response(FALSE, 0, FALSE, FALSE, <<>>) }

\* usage.completion_tokens if usage else _count_tokens_approx(content or "")
UnaryCompletionTokensEstimated(response) ==
    _count_tokens_approx(
        IF response.has_choices /\ response.content_is_str
        THEN response.content ELSE <<>>)

UnaryCompletionTokens(response) ==
    IF response.has_usage THEN response.completion_tokens
    ELSE _count_tokens_approx(
            IF response.has_choices /\ response.content_is_str
            THEN response.content ELSE <<>>)

(***************************************************************************)
(* Completion relay: chat_completions, event_generator, _deduct_tokens.    *)
(***************************************************************************)
NewRequest(pc) ==
    [pc |-> pc, user_id |-> "u1", model |-> my_model, is_stream |-> FALSE,
     prompt_tokens |-> 0, completion_text |-> <<>>, line |-> BlankLine,
     upstream |-> <<>>, client |-> <<>>, called |-> FALSE, calls |-> 0,
     outcome |-> "none", disconnected |-> FALSE, status |-> 0,
     balance_read |-> 0, response |-> Response(FALSE, 0, FALSE, FALSE, <<>>),
     kwargs |-> NoKwargs, passthrough_kwargs |-> NoKwargs, provider |-> ""]

\* asyncio.create_task(_deduct_tokens(user_id, model, prompt_tokens, comp_tokens))
SpawnDeduct(ts, r, rq, comp_tokens) ==
    Append(ts, [req |-> r, user_id |-> rq.user_id, model |-> rq.model,
                prompt_tokens |-> rq.prompt_tokens,
                completion_tokens |-> comp_tokens, pc |-> "scheduled"])

\* the finally block of event_generator (Twice: the except branch creates
\* the task as well)
StreamFinallyTwice(ts, r, rq) ==
    LET once == SpawnDeduct(ts, r, rq, _count_tokens_approx(rq.completion_text))
    IN  IF rq.outcome \notin {"upstream_error", "meter_error"} THEN once
        ELSE SpawnDeduct(once, r, rq, _count_tokens_approx(rq.completion_text))

StreamFinally(ts, r, rq) ==
    SpawnDeduct(ts, r, rq, _count_tokens_approx(rq.completion_text))

\* await _check_balance(..): the raised HTTPException(402) ends the handler
AfterCheckIgnored(rejected) == "start"

AfterCheck(rejected) == IF rejected THEN "rejected" ELSE "start"

\* POST /v1/chat/completions up to the upstream call: the body is parsed,
\* the parameters to pass on are collected, the prompt is estimated,
\* _check_balance reads the account, the provider is resolved
ChatCompletions(r) ==
    /\ req[r].pc = "new"
    /\ \E user_id \in DOMAIN users, model \in env.models,
          messages \in env.messages, is_stream \in BOOLEAN,
          kwargs \in env.kwargs :
          LET prompt_tokens ==
                  _count_tokens_approx(_extract_text_from_messages(messages))
              rejected == CheckBalanceRejects(users, user_id, prompt_tokens)
          IN  req' = [req EXCEPT ![r] =
                        [@ EXCEPT !.user_id = user_id, !.model = model,
                                  !.is_stream = is_stream,
                                  !.prompt_tokens = prompt_tokens,
                                  !.balance_read =
                                      users[user_id].token_balance,
                                  !.status = IF rejected THEN 402 ELSE 0,
                                  !.kwargs = kwargs,
                                  !.passthrough_kwargs =
                                      PassthroughKwargs(model, Body(kwargs)),
                                  !.provider = IF rejected THEN ""
                                               ELSE _get_client(model),
                                  !.pc = AfterCheck(rejected)]]
    /\ UNCHANGED <<users, usage_records, orders, tasks, ful, grants, now,
                   tokenizer_ok, env, initial, plans>>

\* event_generator starts: the upstream call is made and answers with a
\* stream, or raises
StreamOpen(r) ==
    /\ req[r].pc = "start" /\ req[r].is_stream
    /\ \E ok \in BOOLEAN :
          req' = [req EXCEPT ![r] =
                    [@ EXCEPT !.called = TRUE, !.calls = @ + 1,
                              !.status = 200,
                              !.pc = IF ok THEN "await_line" ELSE "yield_error",
                              !.outcome = IF ok THEN "none"
                                          ELSE "upstream_error"]]
    /\ UNCHANGED <<users, usage_records, orders, tasks, ful, grants, now,
                   tokenizer_ok, env, initial, plans>>

\* upstream.iter_lines() yields a line; the generator yields f"{line}\n"
UpstreamLine(r) ==
    /\ req[r].pc = "await_line"
    /\ Len(req[r].upstream) < MaxLines
    /\ \E line \in env.lines :
          req' = [req EXCEPT ![r] =
                    [@ EXCEPT !.upstream = Append(@, line), !.line = line,
                              !.pc = "yield_line"]]
    /\ UNCHANGED <<users, usage_records, orders, tasks, ful, grants, now,
                   tokenizer_ok, env, initial, plans>>

\* the upstream stream ends: the loop and the async with are left, the
\* finally block runs
UpstreamEnd(r) ==
    /\ req[r].pc = "await_line"
    /\ LET rq == [req[r] EXCEPT !.outcome = "completed"] IN
          /\ tasks' = StreamFinally(tasks, r, rq)
          /\ req' = [req EXCEPT ![r] = [rq EXCEPT !.pc = "done"]]
    /\ UNCHANGED <<users, usage_records, orders, ful, grants, now,
                   tokenizer_ok, env, initial, plans>>

\* iter_lines() raises: the except branch yields the synthetic error event
UpstreamFail(r) ==
    /\ req[r].pc = "await_line"
    /\ req' = [req EXCEPT ![r] =
                 [@ EXCEPT !.pc = "yield_error", !.outcome = "upstream_error"]]
    /\ UNCHANGED <<users, usage_records, orders, tasks, ful, grants, now,
                   tokenizer_ok, env, initial, plans>>

\* the client takes the yielded chunk and the generator resumes: after a line
\* the line is metered (and the metering may raise into the except branch),
\* after the error event the generator returns through the finally block
ClientReceive(r) ==
    /\ req[r].pc \in {"yield_line", "yield_error"}
    /\ IF req[r].pc = "yield_line"
       THEN LET m == MeterLine(req[r].completion_text, req[r].line) IN
            /\ req' = [req EXCEPT ![r] =
                  [@ EXCEPT !.client = Append(@, Forwarded(req[r].line)),
                            !.completion_text = m.text,
                            !.pc = IF m.raised THEN "yield_error"
                                   ELSE "await_line",
                            !.outcome = IF m.raised THEN "meter_error"
                                        ELSE @]]
            /\ tasks' = tasks
       ELSE /\ tasks' = StreamFinally(tasks, r, req[r])
            /\ req' = [req EXCEPT ![r] =
                  [@ EXCEPT !.client = Append(@, ErrorEvent), !.pc = "done"]]
    /\ UNCHANGED <<users, usage_records, orders, ful, grants, now,
                   tokenizer_ok, env, initial, plans>>

\* the generator is cancelled or closed at a suspension point inside its try
\* block: CancelledError and GeneratorExit are no Exception, so the except
\* branch is passed over and the finally block runs
GeneratorCloseSkipsFinally(ts, r, rq) == ts

GeneratorClose(ts, r, rq) == StreamFinally(ts, r, rq)

\* the generator was created and never iterated: closing it runs none of its
\* code, the try and its finally block included
UnstartedCloseRunsFinally(ts, r, rq) == StreamFinally(ts, r, rq)

UnstartedClose(ts, r, rq) == ts

\* the client disconnects while the generator is suspended: the generator is
\* cancelled or closed where it stands.  A chunk that was being sent has
\* reached the client or has not.  A generator that was never started (the
\* response was returned, its body not yet iterated) runs no code at all.
ClientDisconnect(r) ==
    /\ \/ req[r].pc \in {"await_line", "yield_line", "yield_error"}
       \/ req[r].pc = "start" /\ req[r].is_stream
    /\ \E sent \in BOOLEAN :
          /\ sent => req[r].pc \in {"yield_line", "yield_error"}
          /\ req' = [req EXCEPT ![r] =
                [@ EXCEPT !.client =
                              IF ~sent THEN @
                              ELSE IF req[r].pc = "yield_line"
                                   THEN Append(@, Forwarded(req[r].line))
                                   ELSE Append(@, ErrorEvent),
                          !.disconnected = TRUE, !.pc = "done"]]
    /\ tasks' = IF req[r].pc = "start" THEN UnstartedClose(tasks, r, req[r])
              ELSE GeneratorClose(tasks, r, req[r])
    /\ UNCHANGED <<users, usage_records, orders, ful, grants, now,
                   tokenizer_ok, env, initial, plans>>

\* the non-streaming call answers: the completion tokens are taken from the
\* response, the debit task is created, the response is returned
UnaryCall(r) ==
    /\ req[r].pc = "start" /\ ~req[r].is_stream
    /\ \E response \in env.responses :
          /\ tasks' = SpawnDeduct(tasks, r, req[r],
                                  UnaryCompletionTokens(response))
          /\ req' = [req EXCEPT ![r] =
                [@ EXCEPT !.called = TRUE, !.calls = @ + 1,
                          !.outcome = "completed",
                          !.response = response,
                          !.status = 200, !.pc = "done"]]
    /\ UNCHANGED <<users, usage_records, orders, ful, grants, now,
                   tokenizer_ok, env, initial, plans>>

\* the non-streaming call raises: HTTPException(502), nothing else
UnaryFail(r) ==
    /\ req[r].pc = "start" /\ ~req[r].is_stream
    /\ req' = [req EXCEPT ![r] =
          [@ EXCEPT !.called = TRUE, !.calls = @ + 1,
                    !.outcome = "upstream_error",
                    !.status = 502, !.pc = "done"]]
    /\ UNCHANGED <<users, usage_records, orders, tasks, ful, grants, now,
                   tokenizer_ok, env, initial, plans>>

\* _deduct_tokens of a task of request r up to its first await:
\* usage_records.insert_one
DeductInsert(r) ==
    \E t \in DOMAIN tasks :
        /\ tasks[t].req = r
        /\ tasks[t].pc = "scheduled"
        /\ usage_records' = Append(usage_records, UsageRecord(tasks[t]))
        /\ tasks' = [tasks EXCEPT ![t].pc = "inserted"]
        /\ UNCHANGED <<users, orders, req, ful, grants, now, tokenizer_ok,
                       env, initial, plans>>

\* _deduct_tokens, second await: users.update_one with $inc
DeductApply(r) ==
    \E t \in DOMAIN tasks :
        /\ tasks[t].req = r
        /\ tasks[t].pc = "inserted"
        /\ LET cost == Cost(tasks[t].model,
                            tasks[t].prompt_tokens
                                + tasks[t].completion_tokens)
           IN  users' =
                   IF /\ tasks[t].user_id \in DOMAIN users
                      /\ DeductMatches(users[tasks[t].user_id], cost)
                   THEN UpdateOne(users, tasks[t].user_id, DeductUpdate(cost))
                   ELSE users
        /\ tasks' = [tasks EXCEPT ![t].pc = "done"]
        /\ UNCHANGED <<usage_records, orders, req, ful, grants, now,
                       tokenizer_ok, env, initial, plans>>

(***************************************************************************)
(* Settlement: PLANS, order creation, _fulfill_order.                      *)
(***************************************************************************)
PLANS ==
    [p \in {"monthly", "yearly", "pack-100w", "pack-500w"} |->
        CASE p = "monthly" -> [token_grant |-> 0, days_grant |-> 30]
          [] p = "yearly" -> [token_grant |-> 0, days_grant |-> 365]
          [] p = "pack-100w" -> [token_grant |-> 1000000, days_grant |-> 0]
          [] p = "pack-500w" -> [token_grant |-> 5000000, days_grant |-> 0]]

\* PLANS as a later release of the program may set it: an entry repriced,
\* an entry removed
PlansNextRelease ==
    [p \in DOMAIN PLANS \ {"monthly"} |->
        IF p = "pack-100w" THEN [token_grant |-> 500000, days_grant |-> 0]
        ELSE PLANS[p]]

NoExpiry == [some |-> FALSE, at |-> 0]      \* membership_expire_at: None
Expiry(at) == [some |-> TRUE, at |-> at]

\* the order document wechat_create / alipay_create insert; out_trade_no is
\* unique (a time stamp and a uuid4 prefix): here the index in db.orders
OrderDoc(user_id, plan_id, payment_method, out_trade_no) ==
    [user_id |-> user_id, plan_id |-> plan_id,
     token_grant |-> plans[plan_id].token_grant,
     days_grant |-> plans[plan_id].days_grant,
     payment_method |-> payment_method, out_trade_no |-> out_trade_no,
     status |-> "pending"]

\* if not order or order["status"] == "paid": return
FulfillSkipsMissing(found, order) == ~found

FulfillSkips(found, order) == ~found \/ order.status = "paid"

\* PLANS.get(order["plan_id"], {}) and the two .get(.., 0)
PlanGrant(plan_id) ==
    IF plan_id \in DOMAIN plans THEN plans[plan_id]
    ELSE [token_grant |-> 0, days_grant |-> 0]

\* lines 86-103: the update document built from the account as it was read
GrantUpdateSetBalance(user, token_grant, days_grant, at) ==
    LET current_expire == user.membership_expire_at
        new_expire ==
            IF current_expire.some /\ current_expire.at > at
            THEN Expiry(current_expire.at + days_grant)
            ELSE Expiry(at + days_grant)
    IN  [inc |-> NoFields,
         set |-> IF days_grant > 0
                 THEN [membership_expire_at |-> new_expire,
                       membership_level |-> "pro",
                       token_balance |-> user.token_balance + token_grant]
                 ELSE [token_balance |-> user.token_balance + token_grant]]

GrantUpdateNoStack(user, token_grant, days_grant, at) ==
    [inc |-> IF token_grant > 0
             THEN [token_balance |-> token_grant] ELSE NoFields,
     set |-> IF days_grant > 0
             THEN [membership_expire_at |-> Expiry(at + days_grant),
                   membership_level |-> "pro"]
             ELSE NoFields]

GrantUpdate(user, token_grant, days_grant, at) ==
    LET current_expire == user.membership_expire_at
        new_expire ==
            IF current_expire.some /\ current_expire.at > at
            THEN Expiry(current_expire.at + days_grant)
            ELSE Expiry(at + days_grant)
    IN  [inc |-> IF token_grant > 0
                 THEN [token_balance |-> token_grant] ELSE NoFields,
         set |-> IF days_grant > 0
                 THEN [membership_expire_at |-> new_expire,
                       membership_level |-> "pro"]
                 ELSE NoFields]

\* the $set of the order when it is marked paid
PaidUpdate(transaction_id, at) ==
    [inc |-> NoFields,
     set |-> [status |-> "paid", transaction_id |-> transaction_id,
              paid_at |-> at]]

NewDelivery(pc) ==
    [pc |-> pc, out_trade_no |-> 0, transaction_id |-> "", found |-> FALSE,
     order |-> <<>>, current_expire |-> NoExpiry, at |-> 0,
     update |-> <<>>, after |-> {}]

\* plan = PLANS.get(req.plan_id); if not plan: raise HTTPException(400);
\* otherwise db.orders.insert_one(order_doc)
InsertOrderAnyPlan(docs, user_id, plan_id, payment_method) ==
    Append(docs,
        [user_id |-> user_id, plan_id |-> plan_id,
         token_grant |-> PlanGrant(plan_id).token_grant,
         days_grant |-> PlanGrant(plan_id).days_grant,
         payment_method |-> payment_method, out_trade_no |-> Len(docs) + 1,
         status |-> "pending"])

InsertOrder(docs, user_id, plan_id, payment_method) ==
    IF plan_id \notin DOMAIN plans
    THEN docs
    ELSE Append(docs,
            OrderDoc(user_id, plan_id, payment_method, Len(docs) + 1))

\* POST /payment/wechat/create, /payment/alipay/create: an unknown plan is
\* answered 400 before anything is written
CreateOrder(payment_method) ==
    /\ Len(orders) < MaxOrders
    /\ \E user_id \in DOMAIN users, plan_id \in env.plans :
          orders' = InsertOrder(orders, user_id, plan_id, payment_method)
    /\ UNCHANGED <<users, usage_records, req, tasks, ful, grants, now,
                   tokenizer_ok, env, initial, plans>>

wechat_create == CreateOrder("wechat")

alipay_create == CreateOrder("alipay")

\* a settlement event is delivered (wechat_notify, alipay_notify) and
\* _fulfill_order runs to its first await: orders.find_one, the status check
\* and the plan lookup
FulfillFindOrder(d) ==
    /\ ful[d].pc = "idle"
    /\ \E out_trade_no \in 1..MaxOrders :
          LET found == out_trade_no \in DOMAIN orders
              order == IF found THEN orders[out_trade_no] ELSE <<>>
          IN  ful' = [ful EXCEPT ![d] =
                [@ EXCEPT !.out_trade_no = out_trade_no,
                          !.transaction_id = d,
                          !.found = found,
                          !.order = order,
                          !.after = {e \in DOMAIN ful : ful[e].pc = "done"},
                          !.pc = IF FulfillSkips(found, order) THEN "done"
                                 ELSE "find_user"]]
    /\ UNCHANGED <<users, usage_records, orders, req, tasks, grants, now,
                   tokenizer_ok, env, initial, plans>>

\* users.find_one returns; without an account the call returns, otherwise
\* the update document is built from the account just read
FulfillFindUser(d) ==
    /\ ful[d].pc = "find_user"
    /\ LET user_id == ful[d].order.user_id
           plan == PlanGrant(ful[d].order.plan_id)
       IN  IF user_id \notin DOMAIN users
           THEN ful' = [ful EXCEPT ![d].pc = "done"]
           ELSE ful' = [ful EXCEPT ![d] =
                   [@ EXCEPT !.current_expire =
                                 users[user_id].membership_expire_at,
                             !.at = now,
                             !.update = GrantUpdate(users[user_id],
                                 plan.token_grant, plan.days_grant, now),
                             !.pc = "update_user"]]
    /\ UNCHANGED <<users, usage_records, orders, req, tasks, grants, now,
                   tokenizer_ok, env, initial, plans>>

\* users.update_one(.., update)
FulfillUpdateUser(d) ==
    /\ ful[d].pc = "update_user"
    /\ users' = UpdateOne(users, ful[d].order.user_id, ful[d].update)
    /\ grants' = Append(grants,
            [delivery |-> d, out_trade_no |-> ful[d].out_trade_no,
             user_id |-> ful[d].order.user_id,
             token_grant |-> PlanGrant(ful[d].order.plan_id).token_grant,
             days_grant |-> PlanGrant(ful[d].order.plan_id).days_grant])
    /\ ful' = [ful EXCEPT ![d].pc = "mark_paid"]
    /\ UNCHANGED <<usage_records, orders, req, tasks, now, tokenizer_ok,
                   env, initial, plans>>

\* orders.update_one(.., {"$set": {status: paid, transaction_id, paid_at}})
FulfillMarkPaid(d) ==
    /\ ful[d].pc = "mark_paid"
    /\ orders' = UpdateOne(orders, ful[d].out_trade_no,
                           PaidUpdate(ful[d].transaction_id, now))
    /\ ful' = [ful EXCEPT ![d].pc = "done"]
    /\ UNCHANGED <<users, usage_records, req, tasks, grants, now,
                   tokenizer_ok, env, initial, plans>>

\* the process is restarted with another release of the program: PLANS is
\* what that release sets at import, the database is as it was; no handler
\* runs across the restart
Deploy ==
    /\ \A d \in Deliveries : ful[d].pc \in {"off", "idle", "done"}
    /\ \A r \in Requests : req[r].pc \in {"off", "new", "rejected", "done"}
    /\ \A t \in DOMAIN tasks : tasks[t].pc = "done"
    /\ \E table \in env.releases \ {plans} : plans' = table
    /\ UNCHANGED <<users, usage_records, orders, req, tasks, ful, grants, now,
                   tokenizer_ok, env, initial>>

\* time passes
Tick ==
    /\ now < MaxTime
    /\ now' = now + 1
    /\ UNCHANGED <<users, usage_records, orders, req, tasks, ful, grants,
                   tokenizer_ok, env, initial, plans>>

(***************************************************************************)
(* Accounts: register, login and the read-only endpoints.                  *)
(***************************************************************************)
Account(token_balance, token_total_used, expire) ==
    [token_balance |-> token_balance, token_total_used |-> token_total_used,
     membership_level |-> IF expire.some THEN "pro" ELSE "free",
     membership_expire_at |-> expire]

\* the document register builds: the welcome grant, nothing used, no
\* membership
RegisterDocUsed(welcome) == Account(welcome, welcome, NoExpiry)

RegisterDoc(welcome) == Account(welcome, 0, NoExpiry)

\* insert_one into a collection keyed by id
InsertOne(coll, id, doc) ==
    [i \in DOMAIN coll \cup {id} |-> IF i = id THEN doc ELSE coll[i]]

\* POST /auth/register: a taken email or username is answered 400, otherwise
\* the account document is inserted with the welcome grant
register(u) ==
    /\ u \notin DOMAIN users
    /\ users' = InsertOne(users, u,
                    RegisterDoc(NEW_USER_WELCOME_TOKENS))
    /\ initial' = InsertOne(initial, u,
                    RegisterDoc(NEW_USER_WELCOME_TOKENS))
    /\ UNCHANGED <<usage_records, orders, req, tasks, ful, grants, now,
                   tokenizer_ok, env, plans>>

\* POST /auth/login: users.find_one by email, 401 or a token; no write
login(u) ==
    /\ u \in Users
    /\ UNCHANGED vars

\* GET /account/profile: answered from the account get_current_user read
get_profile(u) ==
    /\ u \in DOMAIN users
    /\ UNCHANGED vars

\* GET /account/quota: the account and aggregates over usage_records
get_quota(u) ==
    /\ u \in DOMAIN users
    /\ UNCHANGED vars

\* GET /account/usage: count_documents and find over usage_records
get_usage(u) ==
    /\ u \in DOMAIN users
    /\ UNCHANGED vars

\* GET /account/orders: find over orders
get_orders(u) ==
    /\ u \in DOMAIN users
    /\ UNCHANGED vars

\* GET /payment/order/{out_trade_no}: orders.find_one, 404 or the status
query_order(u) ==
    /\ u \in DOMAIN users
    /\ \E out_trade_no \in 1..MaxOrders : UNCHANGED vars

(***************************************************************************)
(* Specifications.                                                         *)
(***************************************************************************)

\* Spec: one request at a time, every kind of caller input and upstream
\* line, against an account whose balance is near the estimates
RelayEnv ==
    [lines |-> AllLines, models |-> ModelInputs, messages |-> MessageInputs,
     responses |-> UnaryResponses, plans |-> {}, releases |-> {},
     kwargs |-> {NoKwargs}]

Init ==
    /\ plans = PLANS
    /\ users \in [Users -> {Account(b, 7, NoExpiry) : b \in {0, 1, 2}}]
    /\ usage_records = <<>>
    /\ orders = <<>>
    /\ req = [r \in Requests |-> NewRequest(IF r = "r1" THEN "new" ELSE "off")]
    /\ tasks = <<>>
    /\ ful = [d \in Deliveries |-> NewDelivery("off")]
    /\ grants = <<>>
    /\ now = 0
    /\ tokenizer_ok \in BOOLEAN
    /\ env = RelayEnv
    /\ initial = users

Next ==
    \/ \E r \in Requests :
          \/ ChatCompletions(r)
          \/ StreamOpen(r)
          \/ UpstreamLine(r)
          \/ UpstreamEnd(r)
          \/ UpstreamFail(r)
          \/ ClientReceive(r)
          \/ ClientDisconnect(r)
          \/ UnaryCall(r)
          \/ UnaryFail(r)
          \/ DeductInsert(r)
          \/ DeductApply(r)

Spec == Init /\ [][Next]_vars

\* FairSpec: one request against an upstream that sends text, lines without
\* text and a line the metering raises on.  The event loop runs every task
\* it holds: a created _deduct_tokens task is scheduled, and each of its two
\* awaits on the database returns.
StreamEnv ==
    [lines |-> {BlankLine, DoneLine, NullChoicesLine,
                ContentLine(<<"a">>), ContentLine(<<"b">>)},
     models |-> {doubao_lite, my_model},
     messages |-> {<<>>, <<StrMsg(<<"a">>)>>},
     responses |-> UnaryResponses, plans |-> {}, releases |-> {},
     kwargs |-> {NoKwargs}]

InitStream ==
    /\ plans = PLANS
    /\ users \in [Users -> {Account(b, 7, NoExpiry) : b \in {0, 1, 2}}]
    /\ usage_records = <<>>
    /\ orders = <<>>
    /\ req = [r \in Requests |-> NewRequest(IF r = "r1" THEN "new" ELSE "off")]
    /\ tasks = <<>>
    /\ ful = [d \in Deliveries |-> NewDelivery("off")]
    /\ grants = <<>>
    /\ now = 0
    /\ tokenizer_ok \in BOOLEAN
    /\ env = StreamEnv
    /\ initial = users

FairSpec ==
    /\ InitStream
    /\ [][Next]_vars
    /\ \A r \in Requests :
          WF_vars(DeductInsert(r)) /\ WF_vars(DeductApply(r))

\* SpecAccount: an account from its registration on (or one registered
\* earlier that has spent its tokens but one): one request, one order and
\* its settlement, and the read-only endpoints
Text100 == [i \in 1..100 |-> "c"]

AccountEnv ==
    [lines |-> {ContentLine(<<"a">>)}, models |-> {my_model},
     messages |-> {<<>>, <<StrMsg(Text100)>>},
     responses |-> {Response(TRUE, 50, TRUE, TRUE, <<"a">>),
                    Response(TRUE, 0, TRUE, TRUE, <<>>),
                    Response(FALSE, 0, TRUE, TRUE, <<"a", "b">>),
                    Response(FALSE, 0, TRUE, FALSE, <<>>)},
     plans |-> {"pack-100w"}, releases |-> {},
     kwargs |-> {NoKwargs}]

InitAccount ==
    /\ plans = PLANS
    /\ users \in {[u \in {} |-> Account(0, 0, NoExpiry)],
                  [u \in Users |-> Account(1, 7, NoExpiry)]}
    /\ usage_records = <<>>
    /\ orders = <<>>
    /\ req = [r \in Requests |-> NewRequest(IF r = "r1" THEN "new" ELSE "off")]
    /\ tasks = <<>>
    /\ ful = [d \in Deliveries |->
                 NewDelivery(IF d = "d1" THEN "idle" ELSE "off")]
    /\ grants = <<>>
    /\ now = 0
    /\ tokenizer_ok \in BOOLEAN
    /\ env = AccountEnv
    /\ initial = users

NextAccount ==
    \/ \E u \in Users :
          \/ register(u)
          \/ login(u)
          \/ get_profile(u)
          \/ get_quota(u)
          \/ get_usage(u)
          \/ get_orders(u)
          \/ query_order(u)
    \/ \E r \in Requests :
          \/ ChatCompletions(r)
          \/ StreamOpen(r)
          \/ UpstreamLine(r)
          \/ UpstreamEnd(r)
          \/ UpstreamFail(r)
          \/ ClientReceive(r)
          \/ ClientDisconnect(r)
          \/ UnaryCall(r)
          \/ UnaryFail(r)
          \/ DeductInsert(r)
          \/ DeductApply(r)
    \/ wechat_create
    \/ \E d \in Deliveries :
          \/ FulfillFindOrder(d)
          \/ FulfillFindUser(d)
          \/ FulfillUpdateUser(d)
          \/ FulfillMarkPaid(d)

SpecAccount == InitAccount /\ [][NextAccount]_vars

\* SpecLedger: two concurrent non-streaming requests of one account and two
\* concurrent deliveries of settlement events for a pending token pack
LedgerEnv ==
    [lines |-> {}, models |-> {doubao_lite, my_model},
     messages |-> {<<StrMsg(<<"a">>)>>},
     responses |-> {Response(TRUE, 2, TRUE, TRUE, <<"a">>),
                    Response(FALSE, 0, TRUE, FALSE, <<>>)},
     plans |-> {}, releases |-> {},
     kwargs |-> {NoKwargs}]

InitLedger ==
    /\ plans = PLANS
    /\ users = [u \in Users |-> Account(2, 0, NoExpiry)]
    /\ usage_records = <<>>
    /\ orders = <<OrderDoc("u1", "pack-100w", "wechat", 1)>>
    /\ req = [r \in Requests |-> NewRequest("new")]
    /\ tasks = <<>>
    /\ ful = [d \in Deliveries |-> NewDelivery("idle")]
    /\ grants = <<>>
    /\ now = 0
    /\ tokenizer_ok = TRUE
    /\ env = LedgerEnv
    /\ initial = users

NextLedger ==
    \/ \E r \in Requests :
          \/ ChatCompletions(r)
          \/ UnaryCall(r)
          \/ UnaryFail(r)
          \/ DeductInsert(r)
          \/ DeductApply(r)
    \/ \E d \in Deliveries :
          \/ FulfillFindOrder(d)
          \/ FulfillFindUser(d)
          \/ FulfillUpdateUser(d)
          \/ FulfillMarkPaid(d)

SpecLedger == InitLedger /\ [][NextLedger]_vars

\* SpecPlans: orders are created, the program is redeployed with another
\* PLANS table, settlement events are delivered
PlansEnv ==
    [lines |-> {}, models |-> {}, messages |-> {}, responses |-> {},
     plans |-> {"monthly", "pack-100w"}, releases |-> {PlansNextRelease},
     kwargs |-> {NoKwargs}]

InitPlans ==
    /\ plans = PLANS
    /\ users = [u \in Users |-> Account(2, 0, NoExpiry)]
    /\ usage_records = <<>>
    /\ orders = <<>>
    /\ req = [r \in Requests |-> NewRequest("off")]
    /\ tasks = <<>>
    /\ ful = [d \in Deliveries |-> NewDelivery("idle")]
    /\ grants = <<>>
    /\ now = 0
    /\ tokenizer_ok = TRUE
    /\ env = PlansEnv
    /\ initial = users

NextPlans ==
    \/ wechat_create
    \/ alipay_create
    \/ Deploy
    \/ \E d \in Deliveries :
          \/ FulfillFindOrder(d)
          \/ FulfillFindUser(d)
          \/ FulfillUpdateUser(d)
          \/ FulfillMarkPaid(d)

SpecPlans == InitPlans /\ [][NextPlans]_vars

\* SpecSettle: order creation and concurrent deliveries of settlement
\* events, with the clock
SettleEnv ==
    [lines |-> {}, models |-> {}, messages |-> {}, responses |-> {},
     plans |-> {"monthly", "pack-100w", "no-such-plan"}, releases |-> {},
     kwargs |-> {NoKwargs}]

InitSettle ==
    /\ plans = PLANS
    /\ users \in [Users -> {Account(2, 0, e) : e \in {NoExpiry, Expiry(1)}}]
    /\ usage_records = <<>>
    /\ orders = <<>>
    /\ req = [r \in Requests |-> NewRequest("off")]
    /\ tasks = <<>>
    /\ ful = [d \in Deliveries |-> NewDelivery("idle")]
    /\ grants = <<>>
    /\ now = 0
    /\ tokenizer_ok = TRUE
    /\ env = SettleEnv
    /\ initial = users

NextSettle ==
    \/ wechat_create
    \/ alipay_create
    \/ \E d \in Deliveries :
          \/ FulfillFindOrder(d)
          \/ FulfillFindUser(d)
          \/ FulfillUpdateUser(d)
          \/ FulfillMarkPaid(d)
    \/ Tick

SpecSettle == InitSettle /\ [][NextSettle]_vars

\* SpecRoute: one request for each of many spellings of the model
\* identifier and each parameter bag, up to its debit.  A spelling is a
\* lower-case identifier put in some case between some whitespace.
BaseIdents ==
    DOMAIN TOKEN_COST_MULTIPLIER \cup
    {<<"m", "i", "n", "i", "m", "a", "x">>,
     <<"a", "b", "a", "b">>,
     <<"d", "o", "u", "b", "a", "o">>,
     <<"e", "p", "-">>,
     <<"g", "l", "m">>,
     <<"g", "p", "t">>,
     <<>>,
     <<"g", "p">>,
     <<"e", "p">>,
     <<"m", "i", "n", "i">>,
     <<"x", "g", "p", "t">>,
     <<"m", "y", "-", "m", "o", "d", "e", "l">>,
     <<"e", "p", "-", "1">>,
     <<"g", "p", "t", "-", "4", "o", "-", "x">>,
     <<"g", " ", "p", "t">>}

upper(s) ==
    [i \in 1..Len(s) |->
        IF \E n \in 1..26 : LowerCase[n] = s[i]
        THEN UpperCase[CHOOSE n \in 1..26 : LowerCase[n] = s[i]]
        ELSE s[i]]

Cased(base, casing) ==
    CASE casing = "lower" -> base
      [] casing = "upper" -> upper(base)
      [] casing = "title" ->
            IF base = <<>> THEN base
            ELSE upper(SubSeq(base, 1, 1)) \o SubSeq(base, 2, Len(base))

Casings == {"lower", "upper", "title"}
PadsLeft == {<<>>, <<" ">>}
PadsRight == {<<>>, <<"\t", "\n">>}

Variant(base, left, right, casing) == left \o Cased(base, casing) \o right

ModelVariants ==
    {Variant(base, left, right, casing) :
        base \in BaseIdents, left \in PadsLeft, right \in PadsRight,
        casing \in Casings}

RouteEnv ==
    [lines |-> {}, models |-> ModelVariants, messages |-> {<<>>},
     responses |-> {Response(TRUE, 10, TRUE, TRUE, <<"a">>)},
     plans |-> {}, releases |-> {},
     kwargs |-> KwargsInputs]

InitRoute ==
    /\ plans = PLANS
    /\ users = [u \in Users |-> Account(2, 0, NoExpiry)]
    /\ usage_records = <<>>
    /\ orders = <<>>
    /\ req = [r \in Requests |-> NewRequest(IF r = "r1" THEN "new" ELSE "off")]
    /\ tasks = <<>>
    /\ ful = [d \in Deliveries |-> NewDelivery("off")]
    /\ grants = <<>>
    /\ now = 0
    /\ tokenizer_ok = TRUE
    /\ env = RouteEnv
    /\ initial = users

NextRoute ==
    \E r \in Requests :
        \/ ChatCompletions(r)
        \/ StreamOpen(r)
        \/ UpstreamEnd(r)
        \/ ClientReceive(r)
        \/ UnaryCall(r)
        \/ UnaryFail(r)
        \/ DeductInsert(r)
        \/ DeductApply(r)

SpecRoute == InitRoute /\ [][NextRoute]_vars

(***************************************************************************)
(* Properties.                                                             *)
(***************************************************************************)
TasksOf(r) == {t \in DOMAIN tasks : tasks[t].req = r}
DebitsOf(r) == {t \in TasksOf(r) : tasks[t].pc = "done"}
RecordsOf(r) == {i \in DOMAIN usage_records : usage_records[i].req = r}
GrantsOf(o) == {i \in DOMAIN grants : grants[i].out_trade_no = o}

\* C1: every request that reached the upstream call is debited once its
\* handler is over and no debit task of it is still pending: then exactly one
\* UsageRecord and one balance decrement exist for it, whatever its outcome
\* (the finite form of "Finalizing runs and the debit is eventually applied").
C1_FinalizeAlwaysDebits ==
    \A r \in Requests :
        (/\ req[r].called
         /\ req[r].pc = "done"
         /\ \A t \in TasksOf(r) : tasks[t].pc = "done")
        => /\ Cardinality(DebitsOf(r)) = 1
           /\ Cardinality(RecordsOf(r)) = 1

\* C2: no request has more than one debit task, more than one UsageRecord or
\* more than one balance decrement, on any path.
C2_AtMostOneDebit ==
    \A r \in Requests :
        /\ Cardinality(TasksOf(r)) <= 1
        /\ Cardinality(RecordsOf(r)) <= 1
        /\ Cardinality(DebitsOf(r)) <= 1

\* a stream that failed mid-way, sent its synthetic error event, and whose
\* one debit has been applied
C2_Witness ==
    \E r \in Requests :
        /\ req[r].outcome \in {"upstream_error", "meter_error"}
        /\ Len(req[r].upstream) >= 1
        /\ Len(req[r].client) >= 2
        /\ req[r].client[Len(req[r].client)] = ErrorEvent
        /\ Cardinality(DebitsOf(r)) = 1

RECURSIVE SumGrants(_, _)
\* the tokens of the grants applied to account u among the first n
SumGrants(u, n) ==
    IF n = 0 THEN 0
    ELSE (IF grants[n].user_id = u THEN grants[n].token_grant ELSE 0)
            + SumGrants(u, n - 1)

RECURSIVE SumRecordCosts(_, _)
\* the cost_tokens of the UsageRecords of account u among the first n
SumRecordCosts(u, n) ==
    IF n = 0 THEN 0
    ELSE (IF usage_records[n].user_id = u
          THEN usage_records[n].cost_tokens ELSE 0)
            + SumRecordCosts(u, n - 1)

\* every debit task and every fulfill invocation that started has completed
Quiescent ==
    /\ \A t \in DOMAIN tasks : tasks[t].pc = "done"
    /\ \A d \in Deliveries : ful[d].pc \in {"off", "idle", "done"}

\* C3: once all started grants and debits have completed, token_balance is
\* the initial balance plus the granted tokens minus the debit costs,
\* whatever the interleaving was.
C3_BalanceIsGrantsMinusDebits ==
    Quiescent =>
        \A u \in DOMAIN users :
            users[u].token_balance =
                initial[u].token_balance + SumGrants(u, Len(grants))
                    - SumRecordCosts(u, Len(usage_records))

\* two debits and a grant of one account have run concurrently and completed
C3_Witness ==
    /\ Quiescent
    /\ Len(usage_records) = 2
    /\ Len(grants) >= 1
    /\ usage_records[1].cost_tokens # usage_records[2].cost_tokens

\* the charged cost the amended C4 states: the product truncated, floor 1
TruncatedCost(model, total) ==
    Max(1, (total * _get_cost_multiplier(model)) \div 10)

RECURSIVE SumAppliedCosts(_, _)
\* TruncatedCost over the debits applied to account u among the first n tasks
SumAppliedCosts(u, n) ==
    IF n = 0 THEN 0
    ELSE (IF tasks[n].user_id = u /\ tasks[n].pc = "done"
          THEN TruncatedCost(tasks[n].model,
                   tasks[n].prompt_tokens + tasks[n].completion_tokens)
          ELSE 0) + SumAppliedCosts(u, n - 1)

C5_CheckRejectsBelowEstimate ==
    [][\A r \in Requests :
          (req[r].pc = "new" /\ req'[r].pc # "new") =>
              LET balance == users[req'[r].user_id].token_balance
                  estimate == req'[r].prompt_tokens
              IN  /\ (req'[r].status = 402) <=> (balance < Max(1, estimate))
                  /\ (req'[r].pc = "rejected") <=> (req'[r].status = 402)
                  /\ (req'[r].pc = "start") <=> (req'[r].status # 402)]_vars

\* a request accepted at the boundary balance = estimate >= 1
C5_Witness ==
    \E r \in Requests :
        /\ req[r].pc = "start"
        /\ req[r].prompt_tokens >= 1
        /\ users[req[r].user_id].token_balance = req[r].prompt_tokens

\* C6: a request the balance check answered 402 makes no upstream call, has
\* no debit task and no UsageRecord, and leaves the accounts as they were
\* (it is the only request of the run), streaming or not.
C6_RejectedChargesNothing ==
    \A r \in Requests :
        req[r].status = 402 =>
            /\ req[r].pc = "rejected"
            /\ ~req[r].called
            /\ req[r].upstream = <<>> /\ req[r].client = <<>>
            /\ TasksOf(r) = {} /\ RecordsOf(r) = {}
            /\ users = initial

\* a streaming request was rejected
C6_Witness ==
    \E r \in Requests : req[r].status = 402 /\ req[r].is_stream

\* C7: when a fulfill call for a pending order has completed before a second
\* call with the same order reference starts (and no other call names that
\* order), the order is paid with the first call's transaction id, exactly
\* one grant was applied for it, by the first call, and the second call
\* returns at its guard without writing anything.
C7_SequentialFulfillGrantsOnce ==
    \A d1 \in Deliveries : \A d2 \in Deliveries \ {d1} :
        (/\ ful[d1].pc = "done"
         /\ d1 \in ful[d2].after
         /\ ful[d2].out_trade_no = ful[d1].out_trade_no
         /\ ful[d1].found
         /\ ful[d1].order.status = "pending"
         /\ \A d3 \in Deliveries \ {d1, d2} :
               ful[d3].pc = "idle"
                  \/ ful[d3].out_trade_no # ful[d1].out_trade_no)
        => LET o == ful[d1].out_trade_no IN
           /\ orders[o].status = "paid"
           /\ orders[o].transaction_id = ful[d1].transaction_id
           /\ Cardinality(GrantsOf(o)) = 1
           /\ \A i \in GrantsOf(o) : grants[i].delivery = d1
           /\ ful[d2].pc = "done"

\* a second call for an order the first call found pending has returned
C7_Witness ==
    \E d1 \in Deliveries : \E d2 \in Deliveries \ {d1} :
        /\ ful[d1].pc = "done" /\ ful[d2].pc = "done"
        /\ d1 \in ful[d2].after
        /\ ful[d2].out_trade_no = ful[d1].out_trade_no
        /\ ful[d1].found
        /\ ful[d1].order.status = "pending"
        /\ Cardinality(GrantsOf(ful[d1].out_trade_no)) = 1

\* C8: for any deliveries of the same settlement event, in any interleaving,
\* the grant of an order is applied to the account at most once.
C8_GrantAtMostOnce ==
    \A o \in DOMAIN orders : Cardinality(GrantsOf(o)) <= 1

ForwardedAll(lines) == [i \in 1..Len(lines) |-> Forwarded(lines[i])]

IsPrefix(s, t) == Len(s) <= Len(t) /\ s = SubSeq(t, 1, Len(s))

RECURSIVE DeltaText(_)
\* the textual delta contents of the chunks among lines, in order
DeltaText(lines) ==
    IF Len(lines) = 0 THEN <<>>
    ELSE (IF /\ Head(lines).data_prefix
             /\ Head(lines).rest = " {obj}"
             /\ Head(lines).choices_kind = "list"
          THEN ChoicesText(Head(lines).choices) ELSE <<>>)
            \o DeltaText(Tail(lines))

\* C9: as long as the upstream does not fail, what a streaming request sends
\* its client is the upstream's lines, in order, nothing else: a prefix of
\* them while the stream runs, all of them when it is over without a client
\* disconnect; and when the stream ended normally the debit's completion
\* tokens are the estimate of the concatenated delta contents of those lines.
C9_StreamRelayedVerbatim ==
    \A r \in Requests :
        (req[r].is_stream /\ req[r].outcome # "upstream_error") =>
            /\ IsPrefix(req[r].client, ForwardedAll(req[r].upstream))
            /\ (req[r].pc = "done" /\ ~req[r].disconnected)
                  => req[r].client = ForwardedAll(req[r].upstream)
            /\ req[r].outcome = "completed" =>
                  \A t \in TasksOf(r) :
                      tasks[t].completion_tokens =
                          _count_tokens_approx(DeltaText(req[r].upstream))

\* C10: when the upstream fails after k >= 1 forwarded lines and the client
\* stays connected, the client has received those k lines, then the one
\* synthetic error event, then nothing; one debit was started, and it and its
\* UsageRecord carry the estimate of the text of the k lines.
C10_MidStreamFailure ==
    \A r \in Requests :
        (/\ req[r].is_stream
         /\ req[r].outcome = "upstream_error"
         /\ Len(req[r].upstream) >= 1
         /\ req[r].pc = "done"
         /\ ~req[r].disconnected)
        => LET k_tokens == _count_tokens_approx(DeltaText(req[r].upstream))
           IN  /\ req[r].client =
                     ForwardedAll(req[r].upstream) \o <<ErrorEvent>>
               /\ Cardinality(TasksOf(r)) = 1
               /\ \A t \in TasksOf(r) : tasks[t].completion_tokens = k_tokens
               /\ \A i \in RecordsOf(r) :
                     usage_records[i].completion_tokens = k_tokens

\* the upstream failed after two lines with text, the error event was sent
\* and the UsageRecord is written
C10_Witness ==
    \E r \in Requests :
        /\ req[r].is_stream
        /\ req[r].outcome = "upstream_error"
        /\ Len(req[r].upstream) >= 2
        /\ Len(DeltaText(req[r].upstream)) >= 2
        /\ req[r].pc = "done"
        /\ ~req[r].disconnected
        /\ RecordsOf(r) # {}

\* C11: once the client of a stream has disconnected nothing more is sent to
\* it and nothing more is pulled from the upstream; when the disconnect came
\* after the upstream call was made, the one debit task of the request exists
\* from that step on, no step cancels a task or sets it back, and the task
\* runs to completion: its UsageRecord is written and its decrement applied.
C11_DisconnectStillDebits ==
    /\ [][\A r \in Requests :
            /\ req[r].disconnected =>
                  /\ req'[r].client = req[r].client
                  /\ req'[r].upstream = req[r].upstream
            /\ \A t \in DOMAIN tasks :
                  /\ t \in DOMAIN tasks'
                  /\ tasks[t].pc = "inserted" => tasks'[t].pc # "scheduled"
                  /\ tasks[t].pc = "done" => tasks'[t].pc = "done"]_vars
    /\ [](\A r \in Requests :
            (req[r].disconnected /\ req[r].called) =>
                Cardinality(TasksOf(r)) = 1)
    /\ \A r \in Requests :
          (req[r].disconnected /\ req[r].called)
             ~> (Cardinality(DebitsOf(r)) = 1 /\ Cardinality(RecordsOf(r)) = 1)

\* the client went away in the middle of a chunk after an earlier line with
\* text had been forwarded, and the debit has been applied since
C11_Witness ==
    \E r \in Requests :
        /\ req[r].disconnected
        /\ req[r].line # BlankLine
        /\ Len(req[r].upstream) = 2
        /\ Len(req[r].client) = 1
        /\ Len(req[r].completion_text) >= 1
        /\ Cardinality(DebitsOf(r)) = 1

\* the completion count C12 states: the count the response reports when it
\* carries usage, otherwise the estimate of its output text
ReportedOrEstimated(response) ==
    IF response.has_usage THEN response.completion_tokens
    ELSE _count_tokens_approx(IF response.has_choices /\ response.content_is_str
                              THEN response.content ELSE <<>>)

\* a successful non-streaming request on a model with multiplier 1.0 whose
\* debit has completed; charge is what the debit is said to take
UnaryDebited(r, charge) ==
    LET u == req[r].user_id
        p == req[r].prompt_tokens
        c == ReportedOrEstimated(req[r].response)
    IN  (/\ ~req[r].is_stream
         /\ req[r].outcome = "completed"
         /\ _get_cost_multiplier(req[r].model) = 10
         /\ DebitsOf(r) # {})
        => /\ Cardinality(RecordsOf(r)) = 1
           /\ \A i \in RecordsOf(r) :
                 /\ usage_records[i].prompt_tokens = p
                 /\ usage_records[i].completion_tokens = c
                 /\ usage_records[i].cost_tokens = charge[p + c]
           /\ users[u].token_balance =
                 initial[u].token_balance + SumGrants(u, Len(grants))
                     - charge[p + c]
           /\ users[u].token_total_used =
                 initial[u].token_total_used + charge[p + c]

\* C12 as claimed: after the debit of a successful unary request on a model
\* with multiplier 1.0 the balance is lower by p + c, token_total_used higher
\* by p + c, and the one UsageRecord of the request has prompt_tokens p,
\* completion_tokens c and cost_tokens p + c, where p is the estimate taken at
\* the balance check and c the reported count, or the estimate of the output.
C12_UnaryChargeIsSum ==
    \A r \in Requests : UnaryDebited(r, [n \in 0..200 |-> n])

\* C12 as amended: the same with the charge max(1, p + c): a request with
\* p + c = 0 is charged one token.
C12_UnaryChargeIsSumFloorOne ==
    \A r \in Requests : UnaryDebited(r, [n \in 0..200 |-> Max(1, n)])

\* the example: a new account, p = 100, c = 50 reported by the upstream, the
\* debit applied: balance 49,850, 150 used, one record of cost 150
C12_Witness ==
    \E r \in Requests :
        /\ ~req[r].is_stream /\ req[r].outcome = "completed"
        /\ req[r].prompt_tokens = 100
        /\ req[r].response.has_usage
        /\ req[r].response.completion_tokens = 50
        /\ DebitsOf(r) # {}
        /\ users[req[r].user_id].token_balance = 49850
        /\ users[req[r].user_id].token_total_used = 150
        /\ \E i \in RecordsOf(r) : usage_records[i].cost_tokens = 150

\* C13 as claimed: in every reachable state every account's token_balance is
\* greater than or equal to zero.
C13_BalanceNeverNegative ==
    \A u \in DOMAIN users : users[u].token_balance >= 0

\* C13 as amended: a debit may take token_balance below zero, but never by
\* more than the account has consumed: in every reachable state
\* token_balance + token_total_used >= 0; and every request that went on to
\* the upstream read a balance of at least max(1, its prompt estimate).
C13_BalanceBoundedByUsed ==
    /\ \A u \in DOMAIN users :
          users[u].token_balance + users[u].token_total_used >= 0
    /\ \A r \in Requests :
          req[r].pc \notin {"off", "new", "rejected"} =>
              req[r].balance_read >= Max(1, req[r].prompt_tokens)

\* a debit has taken the balance of an account below zero
C13_Witness ==
    \E u \in DOMAIN users :
        /\ users[u].token_balance < 0
        /\ users[u].token_total_used > 0
        /\ \E t \in DOMAIN tasks : tasks[t].user_id = u /\ tasks[t].pc = "done"

\* C14: the balance check reserves nothing and the debit is unconditional: a
\* request is accepted exactly when the stored balance is at least
\* max(1, estimate), whatever other accepted requests are in flight, the
\* check writes nothing, and every debit that is applied takes its full cost
\* from token_balance whatever the balance is.  So two concurrent requests
\* can both pass against the same balance and leave it below zero (the
\* witness).
C14_CheckReservesNothing ==
    [][/\ \A r \in Requests :
             (req[r].pc = "new" /\ req'[r].pc # "new") =>
                 /\ users' = users /\ tasks' = tasks
                 /\ req'[r].balance_read = users[req'[r].user_id].token_balance
                 /\ (req'[r].pc = "start") <=>
                        (users[req'[r].user_id].token_balance >=
                            Max(1, req'[r].prompt_tokens))
       /\ \A t \in DOMAIN tasks :
             (tasks[t].pc = "inserted" /\ tasks'[t].pc = "done") =>
                 users'[tasks[t].user_id].token_balance =
                     users[tasks[t].user_id].token_balance
                         - Cost(tasks[t].model,
                                tasks[t].prompt_tokens
                                    + tasks[t].completion_tokens)]_vars

\* two requests of one account both passed the check against the same
\* balance, both reached the upstream, both debits are applied, no grant
\* came in between, and the balance is below zero
C14_Witness ==
    \E r1 \in Requests : \E r2 \in Requests \ {r1} :
        /\ req[r1].user_id = req[r2].user_id
        /\ req[r1].balance_read = req[r2].balance_read
        /\ req[r1].balance_read >= 1
        /\ req[r1].called /\ req[r2].called
        /\ DebitsOf(r1) # {} /\ DebitsOf(r2) # {}
        /\ grants = <<>>
        /\ users[req[r1].user_id].token_balance < 0
        /\ users[req[r1].user_id].token_balance =
              req[r1].balance_read
                  - SumRecordCosts(req[r1].user_id, Len(usage_records))

\* C15: when fulfill applies the grant of a pending order whose plan grants
\* d > 0 days and no tokens, to an account whose expiry is still the one the
\* invocation read, membership_level becomes the paid tier, token_balance
\* stays as it is, and membership_expire_at becomes the current expiry + d
\* when that expiry is strictly after the fulfillment time, otherwise (no
\* expiry, or one not in the future) the fulfillment time + d.
C15_MembershipGrant ==
    [][\A d \in Deliveries :
          LET u == ful[d].order.user_id
              days == ful[d].order.days_grant
              cur == users[u].membership_expire_at
              at == ful[d].at
          IN  (/\ ful[d].pc = "update_user" /\ ful'[d].pc = "mark_paid"
               /\ ful[d].order.status = "pending"
               /\ days > 0 /\ ful[d].order.token_grant = 0
               /\ cur = ful[d].current_expire)
              => /\ users'[u].membership_level = "pro"
                 /\ users'[u].token_balance = users[u].token_balance
                 /\ users'[u].membership_expire_at =
                       IF cur.some /\ cur.at > at
                       THEN Expiry(cur.at + days)
                       ELSE Expiry(at + days)]_vars

\* a 30-day order was fulfilled at time 0 for an account whose membership
\* ran until day 1: it now runs until day 31
C15_Witness ==
    \E d \in Deliveries :
        /\ ful[d].pc \in {"mark_paid", "done"}
        /\ ful[d].found /\ ful[d].order.days_grant = 30
        /\ ful[d].current_expire = Expiry(1) /\ ful[d].at = 0
        /\ users[ful[d].order.user_id].membership_expire_at = Expiry(31)
        /\ users[ful[d].order.user_id].membership_level = "pro"
        /\ users[ful[d].order.user_id].token_balance =
              initial[ful[d].order.user_id].token_balance

\* C16: the grant fulfill applies is the token_grant and days_grant stored
\* on the order when it was created, also when the PLANS entry of the
\* order's plan was changed or removed since: the update adds the order's
\* token_grant to token_balance, and extends the membership by the order's
\* days_grant (not at all when that is 0).
C16_GrantIsOrderSnapshot ==
    [][\A d \in Deliveries :
          LET u == ful[d].order.user_id
              tokens == ful[d].order.token_grant
              days == ful[d].order.days_grant
              cur == ful[d].current_expire
          IN  (ful[d].pc = "update_user" /\ ful'[d].pc = "mark_paid")
              => /\ users'[u].token_balance = users[u].token_balance + tokens
                 /\ users'[u].membership_expire_at =
                       IF days = 0 THEN users[u].membership_expire_at
                       ELSE IF cur.some /\ cur.at > ful[d].at
                            THEN Expiry(cur.at + days)
                            ELSE Expiry(ful[d].at + days)]_vars

\* the expiry after a grant of days at time at to an account with expiry cur
Stacked(cur, at, days) ==
    IF cur.some /\ cur.at > at THEN Expiry(cur.at + days)
    ELSE Expiry(at + days)

\* C17: when two fulfill invocations for two different pending orders of one
\* account, each granting membership days, have both completed, in whatever
\* interleaving, membership_expire_at is the expiry that applying the two
\* grants one after the other gives (in one order or the other): no
\* extension is lost.
C17_ConcurrentExtensionsBothCount ==
    \A d1 \in Deliveries : \A d2 \in Deliveries \ {d1} :
        LET o1 == ful[d1].order
            o2 == ful[d2].order
            u == o1.user_id
            first == initial[u].membership_expire_at
        IN  (/\ ful[d1].pc = "done" /\ ful[d2].pc = "done"
             /\ ful[d1].found /\ ful[d2].found
             /\ o1.status = "pending" /\ o2.status = "pending"
             /\ ful[d1].out_trade_no # ful[d2].out_trade_no
             /\ o1.user_id = o2.user_id
             /\ o1.days_grant > 0 /\ o2.days_grant > 0)
            => users[u].membership_expire_at \in
                  { Stacked(Stacked(first, ful[d1].at, o1.days_grant),
                            ful[d2].at, o2.days_grant),
                    Stacked(Stacked(first, ful[d2].at, o2.days_grant),
                            ful[d1].at, o1.days_grant) }

\* C18: an account starts, at registration, with token_balance 50,000 and
\* token_total_used 0; after that every step that changes token_balance or
\* token_total_used of an account is the update of a debit (balance down by
\* the debit's cost, used up by it) or the update of a fulfill grant (balance
\* up by the granted tokens, used as it was).  Every other step (balance
\* check, rejected request, upstream call, order creation, marking an order
\* paid) leaves both as they are, and no account is removed.
C18_BalanceChangesOnlyByDebitOrGrant ==
    [][/\ \A u \in DOMAIN users' \ DOMAIN users :
             /\ users'[u].token_balance = 50000
             /\ users'[u].token_total_used = 0
       /\ \A u \in DOMAIN users :
             /\ u \in DOMAIN users'
             /\ (\/ users'[u].token_balance # users[u].token_balance
                 \/ users'[u].token_total_used # users[u].token_total_used)
                => \/ \E t \in DOMAIN tasks :
                        LET cost == Max(1, ((tasks[t].prompt_tokens
                                               + tasks[t].completion_tokens)
                                    * _get_cost_multiplier(tasks[t].model))
                                        \div 10)
                        IN  /\ tasks[t].user_id = u
                            /\ tasks[t].pc = "inserted"
                            /\ tasks'[t].pc = "done"
                            /\ users'[u].token_balance =
                                  users[u].token_balance - cost
                            /\ users'[u].token_total_used =
                                  users[u].token_total_used + cost
                   \/ \E d \in Deliveries :
                        /\ ful[d].pc = "update_user"
                        /\ ful'[d].pc = "mark_paid"
                        /\ ful[d].order.user_id = u
                        /\ ful[d].order.token_grant > 0
                        /\ users'[u].token_balance =
                              users[u].token_balance + ful[d].order.token_grant
                        /\ users'[u].token_total_used =
                              users[u].token_total_used]_vars

\* an account was registered, has paid for a token pack and has been
\* debited for a request
C18_Witness ==
    \E u \in DOMAIN users :
        /\ initial[u] = Account(50000, 0, NoExpiry)
        /\ \E t \in DOMAIN tasks : tasks[t].user_id = u /\ tasks[t].pc = "done"
        /\ \E i \in DOMAIN grants : grants[i].user_id = u
        /\ \E o \in DOMAIN orders : orders[o].status = "paid"
        /\ users[u].token_balance =
              50000 + SumGrants(u, Len(grants))
                  - SumRecordCosts(u, Len(usage_records))

\* C19: token_total_used never decreases: in every step its value in the
\* next state is at least its value in the current state; and the update of
\* a debit raises it by the cost of that debit, the cost_tokens of its
\* UsageRecord, which is at least 1.
C19_TotalUsedMonotonic ==
    [][/\ \A u \in DOMAIN users :
             users'[u].token_total_used >= users[u].token_total_used
       /\ \A t \in DOMAIN tasks :
             (tasks[t].pc = "inserted" /\ tasks'[t].pc = "done") =>
                 \E i \in DOMAIN usage_records :
                     /\ usage_records[i].req = tasks[t].req
                     /\ usage_records[i].cost_tokens >= 1
                     /\ users'[tasks[t].user_id].token_total_used =
                           users[tasks[t].user_id].token_total_used
                               + usage_records[i].cost_tokens]_vars

\* two debits of one account have completed, one of them of a request whose
\* product of tokens and multiplier is below 1, and a grant was applied
C19_Witness ==
    \E u \in DOMAIN users :
        /\ Len(usage_records) = 2
        /\ \A t \in DOMAIN tasks : tasks[t].user_id = u /\ tasks[t].pc = "done"
        /\ \E t \in DOMAIN tasks :
              (tasks[t].prompt_tokens + tasks[t].completion_tokens)
                  * _get_cost_multiplier(tasks[t].model) < 10
        /\ grants # <<>>
        /\ users[u].token_total_used =
              initial[u].token_total_used
                  + SumRecordCosts(u, Len(usage_records))
        /\ users[u].token_total_used >= 2

\* C20: when the upstream call of a streaming request fails before any line
\* was produced and the client stays connected, the client has received the
\* one synthetic upstream_error event and nothing else, one debit was
\* started with completion_tokens 0 and the prompt estimate taken at the
\* balance check, and its UsageRecord charges max(1, cost of the prompt).
C20_FailureBeforeOutput ==
    \A r \in Requests :
        (/\ req[r].is_stream
         /\ req[r].outcome = "upstream_error"
         /\ req[r].upstream = <<>>
         /\ req[r].pc = "done"
         /\ ~req[r].disconnected)
        => /\ req[r].client = <<ErrorEvent>>
           /\ Cardinality(TasksOf(r)) = 1
           /\ \A t \in TasksOf(r) :
                 /\ tasks[t].completion_tokens = 0
                 /\ tasks[t].prompt_tokens = req[r].prompt_tokens
           /\ \A i \in RecordsOf(r) :
                 /\ usage_records[i].completion_tokens = 0
                 /\ usage_records[i].cost_tokens =
                       Max(1, (req[r].prompt_tokens
                                  * _get_cost_multiplier(req[r].model)) \div 10)

\* C21: for every request the steps come in the order balance check,
\* upstream call, debit: the upstream is called only by a request whose
\* balance check has accepted, a debit task exists only for a request whose
\* upstream call was attempted, the upstream is called at most once per
\* request, and no step goes back: a request that was answered 402 or is
\* over makes no call, and a call once made stays made.
C21_CheckThenCallThenDebit ==
    /\ [](\A r \in Requests :
            /\ req[r].calls <= 1
            /\ req[r].called <=> (req[r].calls = 1)
            /\ req[r].called =>
                  /\ req[r].status # 402
                  /\ req[r].pc \notin {"off", "new", "rejected"}
                  /\ req[r].balance_read >= Max(1, req[r].prompt_tokens)
            /\ TasksOf(r) # {} => req[r].called)
    /\ [][\A r \in Requests :
            /\ req'[r].calls >= req[r].calls
            /\ req'[r].calls > req[r].calls => req[r].pc = "start"
            /\ req[r].pc \in {"rejected", "done"} => req'[r] = req[r]]_vars

\* a streaming request whose one upstream call failed is over, the error
\* was not retried, and its debit is applied
C21_Witness ==
    \E r \in Requests :
        /\ req[r].pc = "done"
        /\ req[r].calls = 1
        /\ req[r].outcome = "upstream_error"
        /\ req[r].is_stream
        /\ DebitsOf(r) # {}

\* the upstream lines among what the client was sent, in order
RECURSIVE ForwardedLines(_)
ForwardedLines(sent) ==
    IF Len(sent) = 0 THEN <<>>
    ELSE (IF Head(sent).synthetic THEN <<>> ELSE <<Head(sent).line>>)
            \o ForwardedLines(Tail(sent))

\* C22: when a streaming request ends by client disconnect, the completion
\* tokens of its debit are the estimate of the concatenated delta contents of
\* every line that was forwarded to the client before the disconnect, the
\* last one included.
C22_DisconnectDebitCoversForwarded ==
    \A r \in Requests :
        (req[r].is_stream /\ req[r].disconnected /\ req[r].called) =>
            \A t \in TasksOf(r) :
                tasks[t].completion_tokens =
                    _count_tokens_approx(
                        DeltaText(ForwardedLines(req[r].client)))

\* the lines C23 names: no "data:" prefix, empty data, the [DONE] sentinel,
\* invalid JSON, or a chunk none of whose choices has a textual delta
Unmeterable(line) ==
    \/ ~line.data_prefix
    \/ line.rest \in {" ", " [DONE]", " {bad"}
    \/ /\ line.rest = " {obj}" /\ line.choices_kind = "list"
       /\ \A i \in DOMAIN line.choices :
             ~(line.choices[i].delta_is_dict /\ line.choices[i].content_is_str)

\* C23: when the client takes a line that cannot be parsed for metering, the
\* line is forwarded as it came, the accumulated completion text stays as it
\* was, and the stream goes on: the generator waits for the next upstream
\* line, no error event is sent and no debit is started yet.
C23_UnmeterableLineSkipped ==
    [][\A r \in Requests :
          (/\ req[r].pc = "yield_line"
           /\ Unmeterable(req[r].line)
           /\ ~req'[r].disconnected
           /\ req'[r] # req[r])
          => /\ req'[r].client = Append(req[r].client, Forwarded(req[r].line))
             /\ req'[r].completion_text = req[r].completion_text
             /\ req'[r].pc = "await_line"
             /\ req'[r].outcome = req[r].outcome
             /\ tasks' = tasks]_vars

\* a line of invalid JSON was forwarded, and the line with text that
\* followed it was forwarded and metered
C23_Witness ==
    \E r \in Requests :
        /\ req[r].client =
              <<Forwarded(BadJsonLine), Forwarded(ContentLine(<<"a">>))>>
        /\ req[r].completion_text = <<"a">>
        /\ req[r].pc = "await_line"

\* C24: an order's status only moves from pending to paid, and a paid order
\* is never written again: no step changes the status, transaction_id or
\* paid_at of an order that is paid.
C24_PaidIsTerminal ==
    [][\A o \in DOMAIN orders :
          /\ orders'[o].status # orders[o].status
                => (orders[o].status = "pending" /\ orders'[o].status = "paid")
          /\ orders[o].status = "paid" => orders'[o] = orders[o]]_vars

\* C25: failed lookups write nothing. An order-creation request with a plan
\* id that is not in PLANS leaves db.orders as it is, whoever asks and by
\* either payment method; a fulfill call whose order reference matches no
\* order returns at once, leaving every account and every order unchanged,
\* and a call that has returned never acts again.
C25_FailedLookupsWriteNothing ==
    /\ [](\A user_id \in DOMAIN users :
            \A plan_id \in env.plans \ DOMAIN plans :
                \A payment_method \in {"wechat", "alipay"} :
                    InsertOrder(orders, user_id, plan_id, payment_method)
                        = orders)
    /\ [][\A d \in Deliveries :
            /\ (/\ ful[d].pc = "idle" /\ ful'[d].pc # "idle"
                /\ ful'[d].out_trade_no \notin DOMAIN orders)
               => /\ ful'[d].pc = "done"
                  /\ users' = users
                  /\ orders' = orders
                  /\ grants' = grants
            /\ ful[d].pc = "done" => ful'[d] = ful[d]]_vars

\* a fulfill call for a reference that matches no order has returned while
\* another order is pending, and the unknown plan is among the plans asked
C25_Witness ==
    /\ env.plans \ DOMAIN plans # {}
    /\ \E d \in Deliveries :
          /\ ful[d].pc = "done" /\ ~ful[d].found
          /\ ful[d].out_trade_no \notin DOMAIN orders
          /\ Len(orders) = 1 /\ orders[1].status = "pending"
          /\ users = initial

\* C26: the parameters passed to the upstream call are the members of the
\* request body other than model, messages and stream, with the keys and
\* the values the caller sent, whatever the model identifier is.
C26_ParametersForwardedVerbatim ==
    \A r \in Requests :
        req[r].called => req[r].passthrough_kwargs = req[r].kwargs

\* the prefix table of provider resolution, in the order it is tried
PrefixTable ==
    <<<<<<"m", "i", "n", "i", "m", "a", "x">>, "minimax">>,
      <<<<"a", "b", "a", "b">>, "minimax">>,
      <<<<"d", "o", "u", "b", "a", "o">>, "ark">>,
      <<<<"e", "p", "-">>, "ark">>,
      <<<<"g", "l", "m">>, "glm">>,
      <<<<"g", "p", "t">>, "openai">>>>

FirstMatch(key) ==
    LET hits == {i \in DOMAIN PrefixTable : startswith(key, PrefixTable[i][1])}
    IN  IF hits = {} THEN "glm"
        ELSE PrefixTable[CHOOSE i \in hits : \A j \in hits : i <= j][2]

TableMultiplier(key) ==
    IF key \in DOMAIN TOKEN_COST_MULTIPLIER
    THEN TOKEN_COST_MULTIPLIER[key] ELSE 10

\* every spelling asked for, with the lower-case identifier it spells
Spellings ==
    {[model |-> Variant(base, left, right, casing), base |-> base] :
        base \in BaseIdents, left \in PadsLeft, right \in PadsRight,
        casing \in Casings}

\* C27: whatever the spelling of the model identifier (any case, whitespace
\* around it, unknown, empty), a request that passed the balance check has
\* exactly one provider, the one of the first prefix in the table that the
\* lower-case identifier starts with and otherwise the default (glm); and
\* every UsageRecord of the request is priced with the table's multiplier
\* of the lower-case identifier, 1.0 when the table has no such key.
C27_ProviderResolutionTotal ==
    \A r \in Requests :
        req[r].pc \notin {"off", "new", "rejected"} =>
            /\ req[r].provider \in {"minimax", "ark", "glm", "openai"}
            /\ \E s \in Spellings : s.model = req[r].model
            /\ \A s \in Spellings :
                  s.model = req[r].model =>
                      /\ req[r].provider = FirstMatch(s.base)
                      /\ \A i \in RecordsOf(r) :
                            usage_records[i].cost_tokens =
                              Max(1, (usage_records[i].total_tokens
                                        * TableMultiplier(s.base)) \div 10)

\* " GPT-4O\t\n" went to openai and was priced at 2.0, "Ep-1" went to ark
\* at 1.0: either has its UsageRecord
C27_Witness ==
    \E r \in Requests : \E i \in RecordsOf(r) :
        /\ req[r].called
        /\ \/ /\ req[r].model =
                    <<" ", "G", "P", "T", "-", "4", "O", "\t", "\n">>
              /\ req[r].provider = "openai"
              /\ usage_records[i].total_tokens = 10
              /\ usage_records[i].cost_tokens = 20
           \/ /\ req[r].model = <<"E", "p", "-", "1">>
              /\ req[r].provider = "ark"
              /\ usage_records[i].cost_tokens = 10

\* the debits of account u that have written their UsageRecord and not yet
\* their decrement
DebitsInProgress(u) ==
    {t \in DOMAIN tasks : tasks[t].user_id = u /\ tasks[t].pc = "inserted"}

\* C28: for an account with no debit in progress, token_total_used is the
\* sum of cost_tokens over its UsageRecords, and token_balance is lower
\* than its first value plus the tokens granted by exactly that sum.  At
\* any time a request has as many UsageRecords as debits that got as far
\* as the insert, so no more decrements than records, and token_total_used
\* never exceeds the sum of the recorded costs.
C28_UsedIsSumOfRecords ==
    \A u \in DOMAIN users :
        LET recorded == SumRecordCosts(u, Len(usage_records)) IN
        /\ DebitsInProgress(u) = {} =>
              /\ users[u].token_total_used = recorded
              /\ users[u].token_balance =
                    initial[u].token_balance + SumGrants(u, Len(grants))
                        - recorded
        /\ users[u].token_total_used <= recorded
        /\ DebitsInProgress(u) # {} => users[u].token_total_used < recorded
        /\ \A r \in Requests :
              /\ Cardinality(RecordsOf(r)) =
                    Cardinality({t \in TasksOf(r) :
                                    tasks[t].pc \in {"inserted", "done"}})
              /\ Cardinality(DebitsOf(r)) <= Cardinality(RecordsOf(r))

\* one debit of the account is applied and another has written its record
\* only: two records, the cost of one in token_total_used
C28_Witness ==
    \E u \in DOMAIN users :
        /\ DebitsInProgress(u) # {}
        /\ Len(usage_records) = 2
        /\ users[u].token_total_used > 0
        /\ users[u].token_total_used
              < SumRecordCosts(u, Len(usage_records))

\* C29: in every state, for every account, token_balance + token_total_used
\* is what the account had when it was created (the welcome grant, nothing
\* used, for an account registered now) plus the token grants applied to it
\* so far: a debit moves its cost from one field to the other in one update
\* and leaves the sum alone, whatever runs between its steps.
C29_DebitsConserveTotal ==
    \A u \in DOMAIN users :
        /\ users[u].token_balance + users[u].token_total_used =
              initial[u].token_balance + initial[u].token_total_used
                  + SumGrants(u, Len(grants))
        /\ initial[u].token_total_used = 0 =>
              initial[u].token_balance = NEW_USER_WELCOME_TOKENS

\* an account registered with the welcome grant has been debited and
\* granted a token pack
C29_Witness ==
    \E u \in DOMAIN users :
        /\ initial[u].token_balance = NEW_USER_WELCOME_TOKENS
        /\ users[u].token_total_used > 0
        /\ SumGrants(u, Len(grants)) > 0
        /\ users[u].token_balance =
              NEW_USER_WELCOME_TOKENS + SumGrants(u, Len(grants))
                  - users[u].token_total_used

\* C30: in every state, an order that is paid has had its grant (the
\* token_grant and days_grant of the order) applied to its account at least
\* once, and an order whose account does not exist is pending and nothing
\* has been granted for it.
C30_PaidOrderWasGranted ==
    \A o \in DOMAIN orders :
        /\ orders[o].status = "paid" =>
              \E i \in GrantsOf(o) :
                  /\ grants[i].user_id = orders[o].user_id
                  /\ grants[i].token_grant = orders[o].token_grant
                  /\ grants[i].days_grant = orders[o].days_grant
        /\ orders[o].user_id \notin DOMAIN users =>
              /\ orders[o].status = "pending"
              /\ GrantsOf(o) = {}

====
